---- MODULE Spec2Model ----
(***************************************************************************)
(* Model of fp-ts-fetch: the header / URL / request helpers, the           *)
(* redirection strategies and the redirect-following engine                *)
(* (followRedirectsWith) of src/index.ts.                                  *)
(*                                                                         *)
(* Strings that the code inspects are modelled structurally:               *)
(*   - a host is a sequence of characters, so that String.endsWith is a    *)
(*     real suffix test;                                                   *)
(*   - a serialised URL is the sequence <<protocol, host, pathname>>; a    *)
(*     parsed URL is a record; parse / toString convert between the two;   *)
(*   - an error message is a sequence of string pieces, '+' is \o.         *)
(* A Headers object is a function from (lower-case) names to values.       *)
(***************************************************************************)
EXTENDS Integers, Sequences, FiniteSets, TLC

\* ---------------------------------------------------------------- bounds
\* Largest hop budget handed to followRedirectsWith.
MaxHops == 3

\* ------------------------------------------------------------ Option/Either
None == [tag |-> "None"]
Some(v) == [tag |-> "Some", value |-> v]
isSome(o) == o.tag = "Some"

Left(e) == [tag |-> "Left", left |-> e]
Right(a) == [tag |-> "Right", right |-> a]

\* ------------------------------------------------------------------ Headers
\* new Headers()
EmptyHeaders == [k \in {} |-> "v"]

\* A header set maps each name it holds to its value, a string written as
\* the sequence of its pieces; under the name set-cookie, which the platform
\* never combines, it holds the sequence of the values given for it.
RECURSIVE join(_)
join(values) ==
  IF values = <<>> THEN <<>>
  ELSE IF Len(values) = 1 THEN values[1]
  ELSE values[1] \o <<", ">> \o join(Tail(values))

\* Headers.prototype.get for a name the set holds: the values combined
get(name, headers) ==
  IF name = "set-cookie" THEN join(headers[name]) ELSE headers[name]

\* Headers.prototype.entries: <<name, position, value>>, one entry per name
\* but one per value for set-cookie
entries(headers) ==
  UNION { IF k = "set-cookie"
          THEN { <<k, i, headers[k][i]>> : i \in 1..Len(headers[k]) }
          ELSE { <<k, 1, headers[k]>> } : k \in DOMAIN headers }

\* Headers.prototype.keys: the names of the entries
keys(headers) == { <<e[1], e[2]>> : e \in entries(headers) }

\* H.Eq.equals, mutated: the comparison inside the loop is inverted
H_Eq_equals_inverted(as, bs) ==
  /\ \A e \in entries(as) : ~(e[1] \in DOMAIN bs /\ get(e[1], bs) = e[3])
  /\ Cardinality(entries(as)) = Cardinality(keys(bs))

\* H.Eq.equals: every entry of as is found with the same value in bs
\* (bs.get(key) is null, hence different, when bs lacks the key), and the
\* number of entries counted equals the number of keys of bs.
H_Eq_equals(as, bs) ==
  /\ \A e \in entries(as) : e[1] \in DOMAIN bs /\ get(e[1], bs) = e[3]
  /\ Cardinality(entries(as)) = Cardinality(keys(bs))

\* The functions below change a clone, new Headers(headers): the header set
\* passed in holds after the call what it held before.
\* mutated: no clone is made, the change lands on the argument
argumentAfter_shared(before, changed) == changed

argumentAfter(before, changed) == before

\* H.set, mutated: a prior value is kept and the new one added to it
H_set_appending(name, value, headers) ==
  IF name \notin DOMAIN headers
  THEN [k \in (DOMAIN headers) \cup {name} |->
          IF k # name THEN headers[k]
          ELSE IF name = "set-cookie" THEN <<value>> ELSE value]
  ELSE [headers EXCEPT ![name] =
          IF name = "set-cookie" THEN Append(@, value)
          ELSE @ \o <<", ">> \o value]

\* H.set: clone, then clone.set(name, value)
H_set(name, value, headers) ==
  [k \in (DOMAIN headers) \cup {name} |->
     IF k # name THEN headers[k]
     ELSE IF name = "set-cookie" THEN <<value>> ELSE value]

\* H.append: clone, then clone.append(name, value)
H_append(name, value, headers) ==
  IF name \notin DOMAIN headers THEN H_set(name, value, headers)
  ELSE [headers EXCEPT ![name] =
          IF name = "set-cookie" THEN Append(@, value)
          ELSE @ \o <<", ">> \o value]

\* new Headers(tuples): each pair is appended in turn
RECURSIVE newHeaders(_)
newHeaders(tuples) ==
  IF tuples = <<>> THEN EmptyHeaders
  ELSE LET last == tuples[Len(tuples)]
       IN H_append(last[1], last[2],
                   newHeaders(SubSeq(tuples, 1, Len(tuples) - 1)))

\* H.unset: clone, then clone.delete(name)
H_unset(name, headers) ==
  [k \in (DOMAIN headers) \ {name} |-> headers[k]]

\* H.lookup: O.fromNullable(headers.get(name))
H_lookup(name, headers) ==
  IF name \in DOMAIN headers THEN Some(get(name, headers)) ELSE None

\* omitConfidential, mutated: the cookie header is kept
omitConfidential_keepCookie(headers) == H_unset("authorization", headers)

\* omitConfidential, mutated: the authorization header is kept
omitConfidential_keepAuthorization(headers) == H_unset("cookie", headers)

\* omitConfidential: flow(unset('authorization'), unset('cookie'))
omitConfidential(headers) ==
  H_unset("cookie", H_unset("authorization", headers))

\* omitConditional: flow of the four unsets
\* omitConditional, mutated: if-none-match is kept
omitConditional_keepIfNoneMatch(headers) ==
  H_unset("if-match", H_unset("if-modified-since",
    H_unset("if-unmodified-since", headers)))

omitConditional(headers) ==
  H_unset("if-unmodified-since",
    H_unset("if-none-match",
      H_unset("if-modified-since",
        H_unset("if-match", headers))))

\* ---------------------------------------------------------------------- Url
Protocols == {"http:", "https:", "ftp:"}
Paths == {"/", "/p", "/q", "/r", "/s", "/t"}

HostA == <<"a">>
HostB == <<"b">>
HostSA == <<"s", ".", "a">>
HostXA == <<"x", "a">>
HostExample == <<"example", ".", "com">>
HostFooExample == <<"foo", ".", "example", ".", "com">>
Hosts == {HostA, HostB, HostSA, HostXA, HostExample, HostFooExample}

\* String.prototype.endsWith on character sequences
endsWith(s, suffix) ==
  /\ Len(suffix) <= Len(s)
  /\ SubSeq(s, Len(s) - Len(suffix) + 1, Len(s)) = suffix

\* URL.prototype.toString: the serialised form
toString(u) == <<u.protocol, u.host, u.pathname>>

\* URL.canParse(url): an absolute URL string with a known scheme and a
\* host, with or without a path
canParse(url) ==
  /\ Len(url) \in {2, 3}
  /\ url[1] \in Protocols
  /\ url[2] \in Hosts
  /\ Len(url) = 3 => url[3] \in Paths

\* new URL(url): the path of a URL written without one is "/"
newURL(url) ==
  [protocol |-> url[1], host |-> url[2],
   pathname |-> IF Len(url) = 2 THEN "/" ELSE url[3]]

\* U.unsafeParse
unsafeParse(url) == newURL(url)

\* U.parse
parse(url) == IF canParse(url) THEN Some(newURL(url)) ELSE None

\* URL.canParse(location, base): an absolute URL stands for itself, a
\* path-absolute reference ("/p") resolves against the base, anything else
\* (such as "//") does not resolve.
canParseWithBase(location, base) ==
  \/ canParse(location)
  \/ (Len(location) = 1 /\ location[1] \in Paths /\ canParse(base))

\* new URL(location, base)
newURLWithBase(location, base) ==
  IF canParse(location)
  THEN newURL(location)
  ELSE [protocol |-> base.protocol, host |-> base.host, pathname |-> location[1]]

\* U.navigate
navigate(location, base) ==
  IF canParseWithBase(location, toString(base))
  THEN Some(newURLWithBase(location, base))
  ELSE None

\* U.sameOrigin
\* sameOrigin, mutated: the protocols are not compared
sameOrigin_anyProtocol(origin, dest) ==
  origin.host = dest.host \/ endsWith(dest.host, <<".">> \o origin.host)

\* sameOrigin, mutated: the origin may be a subdomain of the destination
sameOrigin_hostsReversed(origin, dest) ==
  /\ (origin.protocol = dest.protocol \/ dest.protocol = "https:")
  /\ (origin.host = dest.host \/ endsWith(origin.host, <<".">> \o dest.host))

sameOrigin(origin, dest) ==
  /\ (origin.protocol = dest.protocol \/ dest.protocol = "https:")
  /\ (origin.host = dest.host \/ endsWith(dest.host, <<".">> \o origin.host))


\* ------------------------------------------------------------------ Request
\* The value that stands for a TypeError thrown by the Request constructor.
TypeError == [tag |-> "TypeError"]

NoBody == "null"

\* new Request(url, {redirect: 'manual'}): all other options on their defaults
Req_to(url) ==
  [method |-> "GET", url |-> url, headers |-> EmptyHeaders, body |-> NoBody,
   cache |-> "default", credentials |-> "same-origin", destination |-> "",
   integrity |-> "", keepalive |-> FALSE, mode |-> "cors",
   referrer |-> "about:client", referrerPolicy |-> "",
   redirect |-> "manual", signal |-> "s0"]

\* Req.method: new Request(request, {method}).  The constructor refuses a
\* GET or HEAD request that would carry the body of its input.
Req_method(method, request) ==
  IF method \in {"GET", "HEAD"} /\ request.body # NoBody
  THEN TypeError
  ELSE [request EXCEPT !.method = method]

\* Req.headers: new Request(request, {headers})
Req_headers(headers, request) == [request EXCEPT !.headers = headers]

\* Req.body: new Request(request, {body}), refused likewise for GET and HEAD
Req_body(body, request) ==
  IF request.method \in {"GET", "HEAD"}
  THEN TypeError
  ELSE [request EXCEPT !.body = body]

\* Req.url: the request pointed at another URL, everything else preserved
Req_url(url, request) == [request EXCEPT !.url = toString(url)]

\* Req.equivalent, mutated: the cache mode is not compared
equivalent_noCache(left, right) ==
  /\ left.credentials = right.credentials
  /\ left.destination = right.destination
  /\ H_Eq_equals(left.headers, right.headers)
  /\ left.integrity = right.integrity
  /\ left.keepalive = right.keepalive
  /\ left.method = right.method
  /\ left.mode = right.mode
  /\ left.referrer = right.referrer
  /\ left.referrerPolicy = right.referrerPolicy
  /\ left.url = right.url

\* Req.equivalent, mutated: the body is compared too
equivalent_withBody(left, right) ==
  /\ left.cache = right.cache
  /\ left.credentials = right.credentials
  /\ left.destination = right.destination
  /\ H_Eq_equals(left.headers, right.headers)
  /\ left.integrity = right.integrity
  /\ left.keepalive = right.keepalive
  /\ left.method = right.method
  /\ left.mode = right.mode
  /\ left.referrer = right.referrer
  /\ left.referrerPolicy = right.referrerPolicy
  /\ left.url = right.url
  /\ left.body = right.body

\* Req.equivalent
equivalent(left, right) ==
  /\ left.cache = right.cache
  /\ left.credentials = right.credentials
  /\ left.destination = right.destination
  /\ H_Eq_equals(left.headers, right.headers)
  /\ left.integrity = right.integrity
  /\ left.keepalive = right.keepalive
  /\ left.method = right.method
  /\ left.mode = right.mode
  /\ left.referrer = right.referrer
  /\ left.referrerPolicy = right.referrerPolicy
  /\ left.url = right.url

\* ------------------------------------------------------------------- Result
\* type Result = readonly [Response, Request]
Result(response, request) == [response |-> response, request |-> request]

\* T.snd
snd(result) == result.request

\* ---------------------------------------------------------------- strategies
redirectAnyRequest(result) ==
  LET request == result.request
      location == H_lookup("location", result.response.headers)
      origin == parse(request.url)
      dest == IF isSome(location) /\ isSome(origin)
              THEN navigate(location.value, origin.value)
              ELSE None
  IN IF ~isSome(dest)
     THEN request
     ELSE IF sameOrigin(origin.value, dest.value)
          THEN Req_url(dest.value, request)
          ELSE Req_headers(omitConfidential(request.headers),
                           Req_url(dest.value, request))

redirectIfGetMethod(result) ==
  IF result.request.method = "GET" THEN redirectAnyRequest(result)
                                   ELSE result.request

redirectUsingGetMethod(result) ==
  LET got == Req_method("GET", result.request)
  IN IF got = TypeError THEN TypeError
     ELSE redirectAnyRequest(Result(result.response, got))

retryWithoutCondition(result) ==
  IF result.request.method # "GET"
  THEN result.request
  ELSE Req_headers(omitConditional(result.request.headers), result.request)

\* Strategies a caller may write itself (RedirectionStrategy is any function
\* from a Result to a Request).  PathOrder lists the paths such a strategy
\* walks through.
PathOrder == <<"/", "/p", "/q", "/r", "/s", "/t">>

PathIndex(path) == CHOOSE i \in 1..Len(PathOrder) : PathOrder[i] = path

\* always proposes the request for the next path: a request never seen before
\* for as long as fewer than Len(PathOrder) requests were made
alwaysNew(result) ==
  LET u == result.request.url
  IN [result.request EXCEPT
        !.url = <<u[1], u[2], PathOrder[(PathIndex(u[3]) % Len(PathOrder)) + 1]>>]

\* alternates between "/" and "/p": its second proposal repeats a seen request
pingPong(result) ==
  LET u == result.request.url
  IN [result.request EXCEPT
        !.url = <<u[1], u[2], IF u[3] = "/" THEN "/p" ELSE "/">>]

\* proposes the same request with another body
changeBody(result) ==
  Req_body(IF result.request.body = "b1" THEN "b2" ELSE "b1", result.request)

\* Caller-supplied handlers of matchStatus: each answers with its own name
\* and the argument it was invoked with.
Handlers == {"handlerA", "handlerB", "onMismatch"}

handler(name, result) == [called |-> name, with |-> result]

\* Application of a strategy given by name.
Transform(name, result) ==
  CASE name = "snd" -> snd(result)
    [] name = "redirectAnyRequest" -> redirectAnyRequest(result)
    [] name = "redirectIfGetMethod" -> redirectIfGetMethod(result)
    [] name = "redirectUsingGetMethod" -> redirectUsingGetMethod(result)
    [] name = "retryWithoutCondition" -> retryWithoutCondition(result)
    [] name = "alwaysNew" -> alwaysNew(result)
    [] name = "pingPong" -> pingPong(result)
    [] name = "changeBody" -> changeBody(result)
    [] name = "E.left" -> Left(result)
    [] name = "E.right" -> Right(result)
    [] name \in Handlers -> handler(name, result)

\* A Pattern written {code: transform, ...}: a record whose keys are the
\* decimal strings of the codes.
Pattern(byCode) ==
  [k \in { ToString(code) : code \in DOMAIN byCode } |->
     byCode[CHOOSE code \in DOMAIN byCode : ToString(code) = k]]

\* matchStatus, mutated: a handler is found when the pattern has an entry of
\* the same status class (2xx, 3xx, ...)
matchStatus_byClass(onMismatch, pattern, result) ==
  LET class == result.response.status \div 100
      hits == { ToString(s) : s \in (class * 100)..(class * 100 + 99) }
                \cap DOMAIN pattern
  IN IF hits # {}
     THEN Transform(pattern[CHOOSE k \in hits : TRUE], result)
     ELSE Transform(onMismatch, result)

\* matchStatusW / matchStatus: the pattern is looked up under the decimal
\* string of the status; the handler found, or else onMismatch, is applied.
matchStatus(onMismatch, pattern, result) ==
  LET k == ToString(result.response.status)
  IN IF k \in DOMAIN pattern
     THEN Transform(pattern[k], result)
     ELSE Transform(onMismatch, result)

\* the pattern of defaultRedirectionStrategy, mutated: 307 is followed for
\* any method
DefaultPattern_307Any ==
  [k \in {"301", "302", "303", "305", "307"} |->
     CASE k = "301" -> "redirectIfGetMethod"
       [] k = "302" -> "redirectIfGetMethod"
       [] k = "303" -> "redirectUsingGetMethod"
       [] k = "305" -> "redirectAnyRequest"
       [] k = "307" -> "redirectAnyRequest"]

\* acceptStatus, mutated: the tags are swapped
acceptStatus_swapped(code, result) ==
  matchStatus("E.right", Pattern([c \in {code} |-> "E.left"]), result)

acceptStatus(code, result) ==
  matchStatus("E.left", Pattern([c \in {code} |-> "E.right"]), result)

DefaultPattern ==
  [k \in {"301", "302", "303", "305", "307"} |->
     CASE k = "301" -> "redirectIfGetMethod"
       [] k = "302" -> "redirectIfGetMethod"
       [] k = "303" -> "redirectUsingGetMethod"
       [] k = "305" -> "redirectAnyRequest"
       [] k = "307" -> "redirectIfGetMethod"]

defaultRedirectionStrategy(result) == matchStatus("snd", DefaultPattern, result)

\* the pattern of aggressiveRedirectionStrategy, mutated: no entry for 304
AggressivePattern_no304 ==
  [k \in {"301", "302", "303", "305", "307"} |->
     CASE k = "301" -> "redirectAnyRequest"
       [] k = "302" -> "redirectAnyRequest"
       [] k = "303" -> "redirectUsingGetMethod"
       [] k = "305" -> "redirectAnyRequest"
       [] k = "307" -> "redirectAnyRequest"]

AggressivePattern ==
  [k \in {"301", "302", "303", "304", "305", "307"} |->
     CASE k = "301" -> "redirectAnyRequest"
       [] k = "302" -> "redirectAnyRequest"
       [] k = "303" -> "redirectUsingGetMethod"
       [] k = "304" -> "retryWithoutCondition"
       [] k = "305" -> "redirectAnyRequest"
       [] k = "307" -> "redirectAnyRequest"]

aggressiveRedirectionStrategy(result) ==
  matchStatus("snd", AggressivePattern, result)

BuiltinStrategies == {"redirectAnyRequest", "redirectIfGetMethod",
                      "redirectUsingGetMethod", "retryWithoutCondition",
                      "defaultRedirectionStrategy",
                      "aggressiveRedirectionStrategy"}

CallerStrategies == {"snd", "alwaysNew", "pingPong", "changeBody"}

Strategies == BuiltinStrategies \cup CallerStrategies

\* strategy(result) for the strategy handed to followRedirectsWith
Strategy(name, result) ==
  CASE name = "defaultRedirectionStrategy" -> defaultRedirectionStrategy(result)
    [] name = "aggressiveRedirectionStrategy" ->
         aggressiveRedirectionStrategy(result)
    [] OTHER -> Transform(name, result)


\* ------------------------------------------------------------ the transport
\* Header sets of the requests a caller starts from.  A header value is a
\* sequence of string pieces.
FullHeaders ==
  [k \in {"authorization", "cookie", "if-none-match", "accept"} |-> <<k, "1">>]

ConditionalHeaders ==
  [k \in {"if-match", "if-modified-since", "if-none-match",
          "if-unmodified-since", "accept", "cookie"} |-> <<k, "1">>]

PlainHeaders == [k \in {"accept"} |-> <<k, "1">>]

UrlA == <<"http:", HostA, "/">>
UrlSecureA == <<"https:", HostA, "/">>
UrlB == <<"http:", HostB, "/">>
UrlSecureSA == <<"https:", HostSA, "/">>

\* Requests whose Result a caller hands to followRedirectsWith: those made
\* by Req.get and Req.post with some headers set, and a POST given a body.
InitialRequests ==
  { Req_headers(h, [Req_to(u) EXCEPT !.method = m]) :
      h \in {FullHeaders, PlainHeaders}, u \in {UrlA, UrlSecureA},
      m \in {"GET", "POST"} }
  \cup
  { Req_body("b1", Req_headers(FullHeaders,
                               [Req_to(UrlA) EXCEPT !.method = "POST"])) }

\* Values of the location header a server may send: absolute URLs, a
\* path-absolute reference, and "//", which resolves against no base.
Locations == {UrlA, UrlB, UrlSecureSA, <<"/p">>, <<"//">>}

RedirectStatuses == {301, 303}

\* Responses the transport may deliver.
Responses ==
  { [status |-> st, headers |-> EmptyHeaders] : st \in {200, 304} \cup RedirectStatuses }
  \cup
  { [status |-> st, headers |-> [k \in {"location"} |-> l]] :
      st \in RedirectStatuses, l \in Locations }

\* Messages of the errors the transport may fail with.
TransportErrors == {<<"ECONNRESET">>, <<"ENOTFOUND">>}

\* ------------------------------------------------------- followRedirectsWith
VARIABLES
  pc,           \* "idle": not yet called; "task": a TaskEither that will
                \* transfer nextRequest; "inflight": that transfer is running;
                \* "stopped" / "failed": resolved Right / Left; "threw": an
                \* exception escaped
  strategy,     \* the strategy of the invocation
  budget,       \* the max the invocation was called with
  max,          \* the max of the followUp call that built the pending task
  seen,         \* const seen: Request[]
  result,       \* the result argument of the latest followUp call
  nextRequest,  \* const nextRequest of the latest followUp call
  outcome,      \* the Either the invocation resolved with
  first,        \* the request of the Result the invocation was called with
  latest,       \* the Result obtained last: the initial one, or the latest
                \* one delivered by transfer
  sent,         \* the requests handed to transfer, in order
  transportError, \* the message of the error fetch rejected with, if it did
  op,           \* the exported function applied on its own, if one is
  args,         \* its arguments
  ret,          \* its return value, once it returned
  cfg,          \* several runs side by side: what was called, and the server
  runs,         \* the position of each run
  hist          \* the seen arrays of the calls

engine == <<pc, strategy, budget, max, seen, result, nextRequest, outcome,
            first, latest, sent, transportError>>

\* the application of a single exported function
applied == <<op, args, ret>>

\* several invocations, or several executions of one returned task
multi == <<cfg, runs, hist>>

vars == <<engine, applied, multi>>

\* The log of transferred requests is kept finite: no invocation with a
\* budget of at most MaxHops gets to hand more requests than this to the
\* transport.
TransferCap == MaxHops + 1

EngineInit ==
  /\ pc = "idle"
  /\ strategy = "snd"
  /\ budget = 0
  /\ max = 0
  /\ seen = <<>>
  /\ result = None
  /\ nextRequest = None
  /\ outcome = None
  /\ first = None
  /\ latest = None
  /\ sent = <<>>
  /\ transportError = None

Runs == {1, 2}

\* a run before followRedirectsWith was called
IdleRun ==
  [pc |-> "idle", max |-> 0, nextRequest |-> None, sent |-> <<>>,
   outcome |-> None]

\* no run side by side
MultiOff ==
  /\ cfg = None
  /\ runs = [e \in Runs |-> IdleRun]
  /\ hist = [e \in Runs |-> <<>>]

Init ==
  /\ EngineInit
  /\ op = "none"
  /\ args = <<>>
  /\ ret = None
  /\ MultiOff

\* if (max < 1), mutated: one hop too many
budgetSpent_offByOne(m) == m < 0

\* if (max < 1)
budgetSpent(m) == m < 1

\* return TE.right(result) of the budget check, mutated: too many redirects
\* reported as an error
exhausted_asError(r) == Left(<<"Too many redirects">>)

\* return TE.right(result) of the budget check
exhausted(r) == Right(r)

\* seen.push(result[1]), mutated: the request is not recorded
push_forgotten(history, request) == history

\* seen.push(result[1]), mutated: the request is put in front
push_front(history, request) == <<request>> \o history

\* seen.push(result[1])
push(history, request) == Append(history, request)

\* The for loop of followUp, mutated: only the request pushed last is compared
seenBefore_lastOnly(history, next) ==
  Len(history) > 0 /\ equivalent(history[Len(history)], next)

\* The for loop of followUp, mutated: only the first request is compared
seenBefore_firstOnly(history, next) ==
  Len(history) > 0 /\ equivalent(history[1], next)

\* The for loop of followUp: some seen[i] is equivalent to nextRequest.
seenBefore(history, next) ==
  \E i \in 1..Len(history) : equivalent(history[i], next)

\* TE.mapLeft (e => new Error ('After redirect: ' + e.message)), mutated: the
\* error passes unwrapped
wrapError_bare(e) == e

\* TE.mapLeft (e => new Error ('After redirect: ' + e.message)), mutated: the
\* error is wrapped a second time on its way out
wrapError_twice(e) == <<"After redirect: ", "After redirect: ">> \o e

\* TE.mapLeft (e => new Error ('After redirect: ' + e.message))
wrapError(e) == <<"After redirect: ">> \o e

\* followUp (max - 1), mutated: the budget is not decremented
remaining_same(m) == m

\* followUp (max - 1)
remaining(m) == m - 1

\* followUp (m) (r) under strategy s: the state it leaves behind.
followUp(s, m, r) ==
  IF budgetSpent(m)
  THEN /\ pc' = "stopped"
       /\ outcome' = exhausted(r)
       /\ result' = r
       /\ UNCHANGED <<seen, nextRequest, max>>
  ELSE LET pushed == push(seen, r.request)
           next == Strategy(s, r)
       IN /\ seen' = pushed
          /\ result' = r
          /\ IF next = TypeError
             THEN /\ pc' = "threw"
                  /\ UNCHANGED <<nextRequest, outcome, max>>
             ELSE /\ nextRequest' = next
                  /\ IF seenBefore(pushed, next)
                     THEN /\ pc' = "stopped"
                          /\ outcome' = Right(r)
                          /\ max' = max
                     ELSE /\ pc' = "task"
                          /\ max' = m
                          /\ outcome' = outcome

\* followRedirectsWith (s) (n) (Result(response, request))
Call(s, n, response, request) ==
  /\ pc = "idle"
  /\ strategy' = s
  /\ budget' = n
  /\ first' = request
  /\ latest' = Result(response, request)
  /\ followUp(s, n, Result(response, request))
  /\ UNCHANGED <<sent, transportError>>
  /\ UNCHANGED <<applied, multi>>

\* pipe(transfer(nextRequest), ..., TE.chain(followUp(max - 1))), mutated:
\* the next transfer is issued while one is in flight
chained_speculative(position) == position \in {"task", "inflight"}

\* pipe(transfer(nextRequest), ..., TE.chain(followUp(max - 1))): a transfer
\* is issued by running the task followUp returned, and the followUp that
\* builds the next task runs when that transfer has resolved.
chained(position) == position = "task"

\* The task runs: transfer(nextRequest) hands the request to fetch.
Transfer ==
  /\ chained(pc)
  /\ Len(sent) < TransferCap
  /\ pc' = "inflight"
  /\ sent' = Append(sent, nextRequest)
  /\ UNCHANGED <<strategy, budget, max, seen, result, nextRequest, outcome,
                 first, latest, transportError>>
  /\ UNCHANGED <<applied, multi>>

\* fetch resolves: TE.chain (followUp (max - 1)) runs on [response, request].
TransferRight(response) ==
  /\ pc = "inflight"
  /\ latest' = Result(response, nextRequest)
  /\ followUp(strategy, remaining(max), Result(response, nextRequest))
  /\ UNCHANGED <<strategy, budget, first, sent, transportError>>
  /\ UNCHANGED <<applied, multi>>

\* fetch rejects with an error of message e: TE.mapLeft wraps it.
TransferLeft(e) ==
  /\ pc = "inflight"
  /\ pc' = "failed"
  /\ transportError' = Some(e)
  /\ outcome' = Left(wrapError(e))
  /\ UNCHANGED <<strategy, budget, max, seen, result, nextRequest,
                 first, latest, sent>>
  /\ UNCHANGED <<applied, multi>>

Next ==
  \/ /\ pc = "idle"
     /\ \E s \in Strategies, n \in -1..MaxHops,
           response \in Responses, request \in InitialRequests :
          Call(s, n, response, request)
  \/ Transfer
  \/ /\ pc = "inflight"
     /\ \E response \in Responses : TransferRight(response)
  \/ /\ pc = "inflight"
     /\ \E e \in TransportErrors : TransferLeft(e)

Spec == Init /\ [][Next]_vars

\* Every enabled step is eventually taken: a task that was built is run and
\* a transfer that was issued completes.
FairSpec == Spec /\ WF_vars(Next)

\* ------------------------------------------------------ runs side by side
\* A deterministic transport: the answer of fetch depends on the request
\* alone.  "chain" redirects each path to the next and answers the last with
\* 200; "cycle" redirects "/" to "/p" and every other path to "/"; "breaks"
\* redirects "/" to "/p" and "/p" to "/q" and fails on "/q"; "ok" answers 200;
\* "unmodified" answers 304 to every request.
Servers == {"chain", "cycle", "breaks", "ok", "unmodified"}

Found(location) ==
  Right([status |-> 301, headers |-> [k \in {"location"} |-> <<location>>]])

Ok == Right([status |-> 200, headers |-> EmptyHeaders])

serve(server, request) ==
  LET path == request.url[3]
  IN CASE server = "chain" ->
            IF PathIndex(path) < Len(PathOrder)
            THEN Found(PathOrder[PathIndex(path) + 1]) ELSE Ok
       [] server = "cycle" -> IF path = "/" THEN Found("/p") ELSE Found("/")
       [] server = "breaks" ->
            IF path = "/" THEN Found("/p")
            ELSE IF path = "/p" THEN Found("/q")
            ELSE IF path = "/q" THEN Left(<<"ECONNRESET">>)
            ELSE Ok
       [] server = "ok" -> Ok
       [] server = "unmodified" ->
            Right([status |-> 304, headers |-> EmptyHeaders])

\* followUp (m) (r) under strategy s with the seen array history: what it
\* returns (pc "task": a task that will transfer nextRequest) and the seen
\* array it leaves behind.
followUpWith(s, m, r, history) ==
  IF budgetSpent(m)
  THEN [pc |-> "stopped", outcome |-> exhausted(r), history |-> history,
        nextRequest |-> None, max |-> m]
  ELSE LET pushed == push(history, r.request)
           next == Strategy(s, r)
       IN IF next = TypeError
          THEN [pc |-> "threw", outcome |-> None, history |-> pushed,
                nextRequest |-> None, max |-> m]
          ELSE IF seenBefore(pushed, next)
          THEN [pc |-> "stopped", outcome |-> Right(r), history |-> pushed,
                nextRequest |-> next, max |-> m]
          ELSE [pc |-> "task", outcome |-> None, history |-> pushed,
                nextRequest |-> next, max |-> m]

\* const seen: Request[] = [], mutated: one array for all calls
historyOf_global(mode, e) == 1

\* The seen array a run works on: const seen is created by each call of
\* followRedirectsWith(strategy)(max)(result), and the task that call returns
\* closes over it, so every execution of that task works on the same array.
historyOf(mode, e) == IF mode = "task" THEN 1 ELSE e

MultiStrategies ==
  {"defaultRedirectionStrategy", "aggressiveRedirectionStrategy", "alwaysNew",
   "pingPong"}

MultiRequests ==
  { Req_headers(PlainHeaders, Req_to(<<"http:", HostA, path>>)) :
      path \in {"/", "/p"} }
  \cup
  { Req_headers(ConditionalHeaders, [Req_to(UrlA) EXCEPT !.method = m]) :
      m \in {"GET", "POST"} }

\* What followRedirectsWith is called with: (strategy)(budget)(result), the
\* Result being the answer of the server to the request.
Calls ==
  [strategy : MultiStrategies, budget : 0..MaxHops, request : MultiRequests]

initialResult(call, server) ==
  Result(serve(server, call.request).right, call.request)

\* the run after followUp returned f
AfterFollowUp(run, f) ==
  [run EXCEPT !.pc = f.pc, !.max = f.max, !.nextRequest = f.nextRequest,
              !.outcome = f.outcome]

\* Two separate calls, with one strategy and one transport.
CallsInit ==
  /\ EngineInit
  /\ op = "none" /\ args = <<>> /\ ret = None
  /\ runs = [e \in Runs |-> IdleRun]
  /\ hist = [e \in Runs |-> <<>>]
  /\ \E server \in Servers, c1 \in Calls, c2 \in Calls :
       /\ c1.strategy = c2.strategy
       /\ cfg = [mode |-> "calls", server |-> server,
                 call |-> [e \in Runs |-> IF e = 1 THEN c1 ELSE c2]]

\* One call, whose task is executed twice.
TaskInit ==
  /\ EngineInit
  /\ op = "none" /\ args = <<>> /\ ret = None
  /\ runs = [e \in Runs |-> IdleRun]
  /\ hist = [e \in Runs |-> <<>>]
  /\ \E server \in Servers, c \in Calls :
       cfg = [mode |-> "task", server |-> server, call |-> [e \in Runs |-> c]]

\* followRedirectsWith (strategy) (budget) (result), called for run e
InvokeCall(e) ==
  /\ cfg.mode = "calls"
  /\ runs[e].pc = "idle"
  /\ LET h == historyOf(cfg.mode, e)
         call == cfg.call[e]
         f == followUpWith(call.strategy, call.budget,
                           initialResult(call, cfg.server), hist[h])
     IN /\ runs' = [runs EXCEPT ![e] = AfterFollowUp(@, f)]
        /\ hist' = [hist EXCEPT ![h] = f.history]
  /\ UNCHANGED <<engine, applied, cfg>>

\* followRedirectsWith (strategy) (budget) (result), called once: both runs
\* are executions of the task it returned
InvokeOnce ==
  /\ cfg.mode = "task"
  /\ \A e \in Runs : runs[e].pc = "idle"
  /\ LET h == historyOf(cfg.mode, 1)
         call == cfg.call[1]
         f == followUpWith(call.strategy, call.budget,
                           initialResult(call, cfg.server), hist[h])
     IN /\ runs' = [e \in Runs |-> AfterFollowUp(runs[e], f)]
        /\ hist' = [hist EXCEPT ![h] = f.history]
  /\ UNCHANGED <<engine, applied, cfg>>

\* The returned task is executed: transfer(nextRequest) hands the request to
\* fetch.
Execute(e) ==
  /\ runs[e].pc = "task"
  /\ runs' = [runs EXCEPT ![e].pc = "inflight",
                          ![e].sent = Append(@, runs[e].nextRequest)]
  /\ UNCHANGED <<engine, applied, cfg, hist>>

\* fetch settles for run e: a rejection is wrapped by TE.mapLeft; on a
\* response TE.chain runs followUp (max - 1) and at once the task it returns.
Settle(e) ==
  /\ runs[e].pc = "inflight"
  /\ LET run == runs[e]
         h == historyOf(cfg.mode, e)
         answer == serve(cfg.server, run.nextRequest)
     IN IF answer.tag = "Left"
        THEN /\ runs' = [runs EXCEPT ![e].pc = "failed",
                                     ![e].outcome = Left(wrapError(answer.left))]
             /\ hist' = hist
        ELSE LET f == followUpWith(cfg.call[e].strategy, remaining(run.max),
                                   Result(answer.right, run.nextRequest),
                                   hist[h])
             IN /\ hist' = [hist EXCEPT ![h] = f.history]
                /\ runs' = [runs EXCEPT ![e] =
                     IF f.pc = "task"
                     THEN [AfterFollowUp(@, f) EXCEPT
                             !.pc = "inflight",
                             !.sent = Append(@, f.nextRequest)]
                     ELSE AfterFollowUp(@, f)]
  /\ UNCHANGED <<engine, applied, cfg>>

CallsNext ==
  \/ \E e \in Runs : InvokeCall(e)
  \/ \E e \in Runs : Execute(e)
  \/ \E e \in Runs : Settle(e)

TaskNext ==
  \/ InvokeOnce
  \/ \E e \in Runs : Execute(e)
  \/ \E e \in Runs : Settle(e)

\* Two invocations side by side, their transfers interleaved.
CallsSpec == CallsInit /\ [][CallsNext]_vars

\* Two executions of the task of one invocation, interleaved or in sequence.
TaskSpec == TaskInit /\ [][TaskNext]_vars

\* ------------------------------------------- the exported functions, applied
\* Statuses of the Results the functions are applied to.
FnStatuses == {200, 204, 301, 302, 303, 304, 305, 307, 308, 404}

\* Responses of those Results: without location, or with one that is
\* cross-origin, same-origin or unresolvable for the requests below.
FnResponses ==
  { [status |-> st, headers |-> EmptyHeaders] : st \in FnStatuses }
  \cup
  { [status |-> st, headers |-> [k \in {"location"} |-> l]] :
      st \in FnStatuses, l \in {UrlB, <<"/p">>, <<"//">>} }

\* Requests of those Results.
FnRequests ==
  { Req_headers(h, [Req_to(UrlA) EXCEPT !.method = m]) :
      h \in {FullHeaders, PlainHeaders, ConditionalHeaders},
      m \in {"GET", "POST", "PUT"} }
  \cup
  { Req_body("b1", Req_headers(FullHeaders,
                               [Req_to(UrlA) EXCEPT !.method = "POST"])) }

FnResults == { Result(response, request) :
                 response \in FnResponses, request \in FnRequests }

\* The applications of a strategy: <<strategy, result>>.
StrategyArgs == BuiltinStrategies \X FnResults

\* The patterns matchStatus is applied with, by status code.
HandlerPatterns ==
  { [c \in {} |-> "handlerA"],
    [c \in {200} |-> "handlerA"],
    [c \in {200, 404} |-> IF c = 200 THEN "handlerA" ELSE "handlerB"],
    [c \in {301} |-> "handlerB"],
    [c \in {204, 301} |-> IF c = 204 THEN "handlerB" ELSE "handlerA"] }

\* The applications of matchStatus: <<onMismatch, pattern, result>>.
MatchStatusArgs == {"onMismatch"} \X HandlerPatterns \X FnResults

\* The applications of acceptStatus: <<code, result>>.
AcceptStatusArgs == {200, 301, 404} \X FnResults

\* The requests Req.equivalent is applied to: one request, and for each
\* property of a Request a copy that differs in that property alone; one
\* copy differs in the three properties the comparison leaves out.
EqBase == Req_headers(PlainHeaders, [Req_to(UrlA) EXCEPT !.method = "POST"])

EqRequests ==
  { EqBase,
    [EqBase EXCEPT !.method = "PUT"],
    [EqBase EXCEPT !.url = UrlB],
    [EqBase EXCEPT !.referrer = ""],
    [EqBase EXCEPT !.headers = FullHeaders],
    [EqBase EXCEPT !.cache = "no-store"],
    [EqBase EXCEPT !.credentials = "include"],
    [EqBase EXCEPT !.destination = "document"],
    [EqBase EXCEPT !.integrity = "sha256-x"],
    [EqBase EXCEPT !.keepalive = TRUE],
    [EqBase EXCEPT !.mode = "same-origin"],
    [EqBase EXCEPT !.referrerPolicy = "no-referrer"],
    [EqBase EXCEPT !.body = "b1"],
    [EqBase EXCEPT !.redirect = "follow"],
    [EqBase EXCEPT !.signal = "s1"],
    [EqBase EXCEPT !.body = "b2", !.redirect = "follow", !.signal = "s1"] }

\* The applications of Req.equivalent: <<left, right>>.
EquivalentArgs == EqRequests \X EqRequests

\* The URLs Url.sameOrigin is applied to, as written: without a path.
OriginUrls == { <<protocol, host>> : protocol \in Protocols, host \in Hosts }

\* The applications of Url.sameOrigin: <<origin, dest>>.
SameOriginArgs == OriginUrls \X OriginUrls

\* The header sets Headers.Eq is applied to are built from arrays of
\* name/value pairs.
HeaderTuples == {"accept", "set-cookie"} \X {<<"a">>, <<"b">>}

HeaderArrays ==
  {<<>>} \cup { <<t>> : t \in HeaderTuples }
         \cup { <<t, u>> : t \in HeaderTuples, u \in HeaderTuples }

\* The applications of Headers.Eq.equals: <<tuples of as, tuples of bs>>.
EqualsArgs == HeaderArrays \X HeaderArrays

\* The header sets H.set, H.unset and the two omissions are applied to.
FnHeaderSets ==
  {FullHeaders, PlainHeaders, ConditionalHeaders}
  \cup { newHeaders(tuples) : tuples \in HeaderArrays }

\* The applications of H.set: <<name, value, headers>>.
SetArgs == {"accept", "etag", "set-cookie"} \X {<<"a">>, <<"b">>} \X FnHeaderSets

\* The applications of H.unset: <<name, headers>>.
UnsetArgs ==
  {"accept", "cookie", "etag", "if-match", "set-cookie"} \X FnHeaderSets

\* The applications of omitConfidential and omitConditional: <<headers>>.
OmitArgs == { <<headers>> : headers \in FnHeaderSets }

FnInit ==
  /\ EngineInit
  /\ MultiOff
  /\ ret = None
  /\ \/ (op = "strategy" /\ args \in StrategyArgs)
     \/ (op = "matchStatus" /\ args \in MatchStatusArgs)
     \/ (op = "acceptStatus" /\ args \in AcceptStatusArgs)
     \/ (op = "equivalent" /\ args \in EquivalentArgs)
     \/ (op = "sameOrigin" /\ args \in SameOriginArgs)
     \/ (op = "Eq.equals" /\ args \in EqualsArgs)
     \/ (op = "set" /\ args \in SetArgs)
     \/ (op = "unset" /\ args \in UnsetArgs)
     \/ (op \in {"omitConfidential", "omitConditional"} /\ args \in OmitArgs)

\* strategy(result)
ApplyStrategy ==
  /\ op = "strategy"
  /\ ret = None
  /\ ret' = Some(Strategy(args[1], args[2]))
  /\ UNCHANGED <<engine, multi, op, args>>

\* matchStatus(onMismatch, pattern)(result)
ApplyMatchStatus ==
  /\ op = "matchStatus"
  /\ ret = None
  /\ ret' = Some(matchStatus(args[1], Pattern(args[2]), args[3]))
  /\ UNCHANGED <<engine, multi, op, args>>

\* acceptStatus(code)(result)
ApplyAcceptStatus ==
  /\ op = "acceptStatus"
  /\ ret = None
  /\ ret' = Some(acceptStatus(args[1], args[2]))
  /\ UNCHANGED <<engine, multi, op, args>>

\* Req.equivalent(left)(right)
ApplyEquivalent ==
  /\ op = "equivalent"
  /\ ret = None
  /\ ret' = Some(equivalent(args[1], args[2]))
  /\ UNCHANGED <<engine, multi, op, args>>

\* Url.sameOrigin(Url.unsafeParse(origin))(Url.unsafeParse(dest))
ApplySameOrigin ==
  /\ op = "sameOrigin"
  /\ ret = None
  /\ ret' = Some(sameOrigin(unsafeParse(args[1]), unsafeParse(args[2])))
  /\ UNCHANGED <<engine, multi, op, args>>

\* H.Eq.equals(new Headers(as), new Headers(bs))
ApplyEquals ==
  /\ op = "Eq.equals"
  /\ ret = None
  /\ ret' = Some(H_Eq_equals(newHeaders(args[1]), newHeaders(args[2])))
  /\ UNCHANGED <<engine, multi, op, args>>

\* What a function on header sets leaves behind: the header set it returned
\* and the header set it was given, as it is after the call.
Effect(before, changed) ==
  [returned |-> changed, argument |-> argumentAfter(before, changed)]

\* H.set(name, value)(headers)
ApplySet ==
  /\ op = "set"
  /\ ret = None
  /\ ret' = Some(Effect(args[3], H_set(args[1], args[2], args[3])))
  /\ UNCHANGED <<engine, multi, op, args>>

\* H.unset(name)(headers)
ApplyUnset ==
  /\ op = "unset"
  /\ ret = None
  /\ ret' = Some(Effect(args[2], H_unset(args[1], args[2])))
  /\ UNCHANGED <<engine, multi, op, args>>

\* H.omitConfidential(headers)
ApplyOmitConfidential ==
  /\ op = "omitConfidential"
  /\ ret = None
  /\ ret' = Some(Effect(args[1], omitConfidential(args[1])))
  /\ UNCHANGED <<engine, multi, op, args>>

\* H.omitConditional(headers)
ApplyOmitConditional ==
  /\ op = "omitConditional"
  /\ ret = None
  /\ ret' = Some(Effect(args[1], omitConditional(args[1])))
  /\ UNCHANGED <<engine, multi, op, args>>

FnNext ==
  \/ ApplyStrategy
  \/ ApplyMatchStatus
  \/ ApplyAcceptStatus
  \/ ApplyEquivalent
  \/ ApplySameOrigin
  \/ ApplyEquals
  \/ ApplySet
  \/ ApplyUnset
  \/ ApplyOmitConfidential
  \/ ApplyOmitConditional

\* One function is applied once to arguments drawn by FnInit.
FnSpec == FnInit /\ [][FnNext]_vars

\* ------------------------------------------------------------------ helpers
Terminal == pc \in {"stopped", "failed", "threw"}

\* followUp returned because max < 1 (nothing was pushed by that call)
BudgetExhausted == pc = "stopped" /\ Len(seen) = Len(sent)

\* followUp returned from inside the for loop
LoopGuardFired == pc = "stopped" /\ Len(seen) = Len(sent) + 1

HasConfidential(request) ==
  "authorization" \in DOMAIN request.headers \/ "cookie" \in DOMAIN request.headers


\* ------------------------------------------------------------------- claims

\* C1: one invocation followRedirectsWith(strategy)(N)(result) hands at most N
\* requests to the transport, none when N < 1; under a strategy whose every
\* proposal is new (alwaysNew) an invocation that stopped, i.e. whose
\* transport never failed, made exactly N transfers.
C1_HopBudget ==
  /\ (budget < 1 => Len(sent) = 0)
  /\ (budget >= 1 => Len(sent) <= budget)
  /\ (pc = "stopped" /\ strategy = "alwaysNew" /\ budget >= 1
        => Len(sent) = budget)

C1_Witness ==
  /\ pc = "stopped"
  /\ strategy = "alwaysNew"
  /\ budget = MaxHops
  /\ Len(sent) = MaxHops

\* C2: when followRedirectsWith stops, by exhaustion of the budget or by the
\* loop guard, it resolves Right with the Result obtained last (the initial
\* one when nothing was transferred); a Left only ever comes from a failed
\* transfer.
C2_StopIsSuccess ==
  /\ (pc = "stopped" => outcome = Right(latest))
  /\ (pc = "stopped" /\ Len(sent) = 0 => latest.request = first)
  /\ (pc = "stopped" /\ Len(sent) > 0 => latest.request = sent[Len(sent)])
  /\ (outcome.tag = "Left" => pc = "failed")

\* the budget ran out on a response that still asks for a redirect
C2_Witness ==
  /\ BudgetExhausted
  /\ budget >= 2
  /\ strategy = "aggressiveRedirectionStrategy"
  /\ latest.response.status = 301
  /\ "location" \in DOMAIN latest.response.headers
  /\ ~seenBefore(Append(seen, latest.request),
                 aggressiveRedirectionStrategy(latest))

\* C3: no request handed to the transport is equivalent to the initial request
\* or to a request handed to it earlier; a proposal equivalent to a request
\* of the history stops the engine with the current Result, untransferred.
C3_NoRepeat ==
  /\ \A i \in 1..Len(sent) :
       /\ ~equivalent(first, sent[i])
       /\ \A j \in 1..(i - 1) : ~equivalent(sent[j], sent[i])
  /\ (pc \in {"task", "stopped"} /\ Len(seen) = Len(sent) + 1
        /\ (\E i \in 1..Len(seen) : equivalent(seen[i], nextRequest))
        => pc = "stopped" /\ outcome = Right(latest))

\* the proposal repeated a request that is not the current one
C3_Witness ==
  /\ LoopGuardFired
  /\ Len(sent) >= 2
  /\ equivalent(first, nextRequest)
  /\ ~equivalent(latest.request, nextRequest)

C5_TransportFailure ==
  /\ [](/\ (transportError # None =>
              /\ pc = "failed"
              /\ outcome = Left(<<"After redirect: ">> \o transportError.value))
        /\ (pc = "failed" => transportError # None /\ outcome.tag = "Left"))
  /\ [][transportError # None => sent' = sent /\ pc' = "failed"]_vars

\* the transport failed on a later hop
C5_Witness ==
  /\ pc = "failed"
  /\ Len(sent) >= 2
  /\ outcome = Left(<<"After redirect: ", "ECONNRESET">>)


\* C6: provided every transfer completes, an invocation eventually reaches a
\* terminal outcome: it resolves (Right with a Result, or Left with an
\* error), or the exception of a strategy ends it.
C6_Terminates == <>Terminal

\* an invocation that used its whole budget and resolved
C6_Witness ==
  /\ Terminal
  /\ budget = MaxHops
  /\ Len(sent) = MaxHops
  /\ strategy \in BuiltinStrategies

\* C7: an invocation never needs more than history.length + 1 transfers,
\* history being the seen list when it ends, whatever the budget; so it is
\* when the strategy comes back to a request seen before.
C7_LoopBound ==
  /\ Len(sent) <= Len(seen) + 1
  /\ (LoopGuardFired => Len(sent) + 1 = Len(seen))

\* the strategy came back to a seen request with budget left
C7_Witness ==
  /\ LoopGuardFired
  /\ strategy = "pingPong"
  /\ Len(sent) = 1
  /\ Len(seen) = 2
  /\ budget = MaxHops


\* The destination redirectAnyRequest resolves for a Result, if any.
Destination(r) ==
  IF "location" \in DOMAIN r.response.headers
  THEN navigate(r.response.headers["location"], parse(r.request.url).value)
  ELSE None

\* What C8 says of redirectAnyRequest applied to the Result r.
RedirectKeepsOrStrips(r) ==
  LET out == redirectAnyRequest(r)
      origin == parse(r.request.url).value
      dest == Destination(r)
  IN isSome(dest) =>
       /\ out.url = toString(dest.value)
       /\ IF sameOrigin(origin, dest.value)
          THEN /\ out.method = r.request.method
               /\ out.headers = r.request.headers
               /\ out = [r.request EXCEPT !.url = out.url]
          ELSE ~HasConfidential(out)

\* C8: a redirect produced by redirectAnyRequest to a destination that is not
\* same-origin (Url.sameOrigin(origin)(dest)) carries neither authorization
\* nor cookie; to a same-origin destination it is the request with only the
\* URL changed.  The same holds of what redirectUsingGetMethod hands to it,
\* and a built-in strategy never lets the engine transfer a confidential
\* header to a destination that is not same-origin.
C8_ConfidentialHeaders ==
  /\ (latest # None =>
        /\ RedirectKeepsOrStrips(latest)
        /\ (Req_method("GET", latest.request) # TypeError =>
              RedirectKeepsOrStrips(
                Result(latest.response, Req_method("GET", latest.request)))))
  /\ (pc \in {"task", "inflight"} /\ strategy \in BuiltinStrategies
        /\ ~sameOrigin(parse(latest.request.url).value,
                       parse(nextRequest.url).value)
        => ~HasConfidential(nextRequest))

\* a request with credentials is about to leave its origin
C8_Witness ==
  /\ pc = "task"
  /\ strategy = "redirectAnyRequest"
  /\ HasConfidential(latest.request)
  /\ "cookie" \in DOMAIN latest.request.headers
  /\ ~sameOrigin(parse(latest.request.url).value, parse(nextRequest.url).value)
  /\ nextRequest = redirectAnyRequest(latest)

RedirectFamily == {"redirectAnyRequest", "redirectIfGetMethod",
                   "redirectUsingGetMethod", "defaultRedirectionStrategy",
                   "aggressiveRedirectionStrategy"}

\* followUp has just applied the strategy of the invocation to latest.
StrategyApplied ==
  /\ pc \in {"task", "stopped", "threw"}
  /\ Len(seen) = Len(sent) + 1

\* C9: each of redirectAnyRequest, redirectIfGetMethod,
\* redirectUsingGetMethod, defaultRedirectionStrategy and
\* aggressiveRedirectionStrategy, for every method and status, answers a
\* Result whose response has no location header, or a location that does not
\* resolve, with the request of that Result, unchanged, and never fails.
C9_NoTargetKeepsRequest ==
  /\ StrategyApplied
  /\ strategy \in RedirectFamily
  /\ ~isSome(Destination(latest))
  => /\ pc # "threw"
     /\ nextRequest = latest.request

\* C10: a 303 without location header is not followed: under
\* redirectUsingGetMethod, and for status 303 under the default and the
\* aggressive strategy, followRedirectsWith transfers nothing further and
\* resolves with the 303 Result, whatever the method of the request.
C10_SeeOtherWithoutLocation ==
  /\ pc # "idle"
  /\ strategy \in {"redirectUsingGetMethod", "defaultRedirectionStrategy",
                   "aggressiveRedirectionStrategy"}
  /\ latest.response.status = 303
  /\ "location" \notin DOMAIN latest.response.headers
  => /\ pc = "stopped"
     /\ outcome = Right(latest)
     /\ (sent = <<>> \/ sent[Len(sent)] = latest.request)


\* The strategy args[1] was applied to the Result args[2] and returned.
Returned(name) == op = "strategy" /\ args[1] = name /\ ret # None

\* What C11 says defaultRedirectionStrategy answers to the Result r.
DefaultReference(r) ==
  LET st == r.response.status
  IN IF st \in {301, 302, 307}
     THEN IF r.request.method = "GET" THEN redirectAnyRequest(r) ELSE r.request
     ELSE IF st = 303 THEN redirectUsingGetMethod(r)
     ELSE IF st = 305 THEN redirectAnyRequest(r)
     ELSE r.request

\* C11: defaultRedirectionStrategy answers, for every status and method: on
\* 301, 302 and 307 as redirectAnyRequest when the method is GET and with the
\* original request otherwise; on 303 as redirectUsingGetMethod; on 305 as
\* redirectAnyRequest; on any other status (304 and 308 too) with the
\* original request.
C11_DefaultStrategyTable ==
  Returned("defaultRedirectionStrategy") => ret.value = DefaultReference(args[2])

\* a 307 with a location for a POST request is not followed
C11_Witness ==
  /\ Returned("defaultRedirectionStrategy")
  /\ args[2].response.status = 307
  /\ args[2].request.method = "POST"
  /\ isSome(Destination(args[2]))
  /\ ret.value = args[2].request

\* What C12 says aggressiveRedirectionStrategy answers to the Result r.
AggressiveReference(r) ==
  LET st == r.response.status
  IN IF st \in {301, 302, 305, 307} THEN redirectAnyRequest(r)
     ELSE IF st = 303 THEN redirectUsingGetMethod(r)
     ELSE IF st = 304 THEN retryWithoutCondition(r)
     ELSE r.request

\* C12: aggressiveRedirectionStrategy answers, for every status and method:
\* on 301, 302, 305 and 307 as redirectAnyRequest whatever the method; on 303
\* as redirectUsingGetMethod; on 304 as retryWithoutCondition; on any other
\* status with the original request.
C12_AggressiveStrategyTable ==
  Returned("aggressiveRedirectionStrategy")
    => ret.value = AggressiveReference(args[2])

\* a 304 for a GET request with conditional headers is answered by a
\* different request
C12_Witness ==
  /\ Returned("aggressiveRedirectionStrategy")
  /\ args[2].response.status = 304
  /\ args[2].request.method = "GET"
  /\ ret.value # args[2].request
  /\ ret.value = retryWithoutCondition(args[2])

ConditionalNames ==
  {"if-match", "if-modified-since", "if-none-match", "if-unmodified-since"}

\* the headers without the four conditional names
WithoutConditional(headers) ==
  [k \in (DOMAIN headers) \ ConditionalNames |-> headers[k]]

\* retryWithoutCondition on a request: unchanged unless GET, and then the
\* same URL and method with the conditional headers removed
RetryContract(request, answer) ==
  IF request.method # "GET"
  THEN answer = request
  ELSE /\ answer.url = request.url
       /\ answer.method = request.method
       /\ answer.headers = WithoutConditional(request.headers)

\* a 304 Result whose request carries if-none-match
NotModifiedConditional(r) ==
  /\ r.response.status = 304
  /\ "if-none-match" \in DOMAIN r.request.headers

C14_MatchStatusExact ==
  op = "matchStatus" /\ ret # None
    => LET status == args[3].response.status
       IN ret.value =
            [called |-> IF status \in DOMAIN args[2]
                        THEN args[2][status] ELSE args[1],
             with |-> args[3]]

\* {200: handlerA} applied to a 404 Result invoked onMismatch
C14_Witness ==
  /\ op = "matchStatus" /\ ret # None
  /\ DOMAIN args[2] = {200}
  /\ args[3].response.status = 404
  /\ ret.value.called = "onMismatch"

\* C15: acceptStatus(code)(result) is Right(result) when the response status
\* equals code and Left(result) for every other status, the Result carried
\* being the input Result.
C15_AcceptStatus ==
  op = "acceptStatus" /\ ret # None
    => ret.value = IF args[2].response.status = args[1]
                   THEN Right(args[2]) ELSE Left(args[2])

\* both answers occur: here a 404 Result was accepted for code 404
C15_Witness ==
  /\ op = "acceptStatus" /\ ret # None
  /\ args[1] = 404
  /\ args[2].response.status = 404
  /\ ret.value = Right(args[2])

\* the request with the three properties Req.equivalent leaves out set to
\* fixed values
WithoutIgnored(request) ==
  [request EXCEPT !.body = NoBody, !.redirect = "manual", !.signal = "s0"]

\* C16 (as amended): Req.equivalent(a)(b) is true if and only if a and b have
\* the same method, URL, referrer, referrer policy, mode, credentials mode,
\* cache mode, destination, integrity and keepalive flag and equal header
\* sets (Headers.Eq); body, redirect mode and signal do not influence it.
C16_EquivalentFields ==
  op = "equivalent" /\ ret # None
    => LET a == args[1]
           b == args[2]
       IN /\ ret.value <=>
               /\ a.method = b.method
               /\ a.url = b.url
               /\ a.referrer = b.referrer
               /\ a.referrerPolicy = b.referrerPolicy
               /\ a.mode = b.mode
               /\ a.credentials = b.credentials
               /\ a.cache = b.cache
               /\ a.destination = b.destination
               /\ a.integrity = b.integrity
               /\ a.keepalive = b.keepalive
               /\ H_Eq_equals(a.headers, b.headers)
          /\ WithoutIgnored(a) = WithoutIgnored(b) => ret.value

\* two requests that differ in the cache mode alone were found different
C16_Witness ==
  /\ op = "equivalent" /\ ret # None
  /\ args[1] = EqBase
  /\ args[2] = [EqBase EXCEPT !.cache = "no-store"]
  /\ ret.value = FALSE

\* C16 as stated: Req.equivalent(a)(b) is true if and only if a and b have
\* the same method, URL and referrer and equal header sets; no other field
\* influences the result.
C16_OnlyFourFields ==
  op = "equivalent" /\ ret # None
    => (ret.value <=>
          /\ args[1].method = args[2].method
          /\ args[1].url = args[2].url
          /\ args[1].referrer = args[2].referrer
          /\ H_Eq_equals(args[1].headers, args[2].headers))

\* the copies of a request that differ from it only in body, redirect mode
\* or signal (a GET or HEAD request has no body)
IgnoredVariants(request) ==
  { [request EXCEPT !.redirect = "follow"],
    [request EXCEPT !.signal = "s1"],
    [request EXCEPT !.redirect = "follow", !.signal = "s1"] }
  \cup
  (IF request.method \in {"GET", "HEAD"} THEN {}
   ELSE { [request EXCEPT !.body = IF request.body = "b1" THEN "b2" ELSE "b1"],
          [request EXCEPT !.body = IF request.body = "b1" THEN "b2" ELSE "b1",
                          !.redirect = "follow", !.signal = "s1"] })

SameOriginOf(o, d) == op = "sameOrigin" /\ ret # None /\ args = <<o, d>>

\* the host condition of C18: same host, or dest's host ends with "." and
\* origin's host
HostWithin(origin, dest) ==
  \/ origin[2] = dest[2]
  \/ /\ Len(dest[2]) >= Len(origin[2]) + 1
     /\ \A i \in 1..Len(origin[2]) :
          dest[2][Len(dest[2]) - Len(origin[2]) + i] = origin[2][i]
     /\ dest[2][Len(dest[2]) - Len(origin[2])] = "."

\* C18 (as amended): Url.sameOrigin(origin)(dest) is true if and only if
\* (origin and dest have the same protocol, or dest's protocol is https,
\* whatever origin's protocol is) and (they have the same host, or dest's
\* host ends with "." followed by origin's host); a downgrade from an https
\* origin to an http destination is never same-origin.
C18_SameOrigin ==
  op = "sameOrigin" /\ ret # None
    => /\ ret.value <=>
            /\ (args[1][1] = args[2][1] \/ args[2][1] = "https:")
            /\ HostWithin(args[1], args[2])
       /\ args[1][1] = "https:" /\ args[2][1] = "http:" => ~ret.value

\* an ftp origin and an https destination on the same host are same-origin
C18_Witness ==
  /\ SameOriginOf(<<"ftp:", HostA>>, <<"https:", HostA>>)
  /\ ret.value = TRUE

\* C18 as stated: the protocols must be the same, or dest's https while
\* origin's is http.
C18_UpgradeFromHttpOnly ==
  op = "sameOrigin" /\ ret # None
    => (ret.value <=>
          /\ \/ args[1][1] = args[2][1]
             \/ (args[2][1] = "https:" /\ args[1][1] = "http:")
          /\ HostWithin(args[1], args[2]))

\* C19 (as amended): with the first argument as origin and the second as
\* destination, sameOrigin('http://example.com', 'http://foo.example.com')
\* is true and the reversed call false; sameOrigin('http://example.com',
\* 'https://example.com') is true, while sameOrigin('https://example.com',
\* 'http://example.com') is false.
C19_SameOriginExamples ==
  /\ SameOriginOf(<<"http:", HostExample>>, <<"http:", HostFooExample>>)
       => ret.value = TRUE
  /\ SameOriginOf(<<"http:", HostFooExample>>, <<"http:", HostExample>>)
       => ret.value = FALSE
  /\ SameOriginOf(<<"http:", HostExample>>, <<"https:", HostExample>>)
       => ret.value = TRUE
  /\ SameOriginOf(<<"https:", HostExample>>, <<"http:", HostExample>>)
       => ret.value = FALSE

\* the upgrade from http://example.com to https://example.com was found
\* same-origin
C19_Witness ==
  /\ SameOriginOf(<<"http:", HostExample>>, <<"https:", HostExample>>)
  /\ ret.value = TRUE

\* C19 as stated: sameOrigin('http://example.com', 'https://example.com') is
\* false and sameOrigin('https://example.com', 'http://example.com') true.
C19_UpgradeRefused ==
  /\ SameOriginOf(<<"http:", HostExample>>, <<"http:", HostFooExample>>)
       => ret.value = TRUE
  /\ SameOriginOf(<<"http:", HostFooExample>>, <<"http:", HostExample>>)
       => ret.value = FALSE
  /\ SameOriginOf(<<"http:", HostExample>>, <<"https:", HostExample>>)
       => ret.value = FALSE
  /\ SameOriginOf(<<"https:", HostExample>>, <<"http:", HostExample>>)
       => ret.value = TRUE

\* C20: Headers.Eq.equals is reflexive, symmetric and transitive over
\* arbitrary header sets; two header sets holding the same name/value entries
\* are equal whatever the order in which the entries were inserted; sets with
\* a different number of names or a different value under some name are
\* unequal.
C20_HeadersEqLaws ==
  op = "Eq.equals" /\ ret # None
    => LET as == newHeaders(args[1])
           bs == newHeaders(args[2])
       IN /\ args[1] = args[2] => ret.value
          /\ ret.value = H_Eq_equals(bs, as)
          /\ \A tuples \in HeaderArrays :
               ret.value /\ H_Eq_equals(bs, newHeaders(tuples))
                 => H_Eq_equals(as, newHeaders(tuples))
          /\ as = bs => ret.value
          /\ (\/ Cardinality(DOMAIN as) # Cardinality(DOMAIN bs)
              \/ \E k \in (DOMAIN as) \cap (DOMAIN bs) : as[k] # bs[k])
               => ~ret.value

\* C21: Headers.set(n, v) returns a header set in which n maps to v alone,
\* any prior value replaced, and every other entry is as in the input; the
\* input header set is not modified; applying set(n, v) to the result yields
\* the result again.
C21_SetReplaces ==
  op = "set" /\ ret # None
    => LET n == args[1]
           v == args[2]
           headers == args[3]
           out == ret.value.returned
       IN /\ { e \in entries(out) : e[1] = n } = { <<n, 1, v>> }
          /\ H_lookup(n, out) = Some(v)
          /\ DOMAIN out = (DOMAIN headers) \cup {n}
          /\ \A k \in (DOMAIN headers) \ {n} : out[k] = headers[k]
          /\ ret.value.argument = headers
          /\ H_set(n, v, out) = out

\* set('set-cookie', b) on a header set with two set-cookie values and an
\* accept header left one set-cookie value
C21_Witness ==
  /\ op = "set" /\ ret # None
  /\ args[1] = "set-cookie" /\ args[2] = <<"b">>
  /\ "set-cookie" \in DOMAIN args[3] /\ Len(args[3]["set-cookie"]) = 2
  /\ ret.value.returned # args[3]
  /\ ret.value.returned["set-cookie"] = << <<"b">> >>

\* the names a function on header sets removes
Removed ==
  CASE op = "unset" -> {args[1]}
    [] op = "omitConfidential" -> {"authorization", "cookie"}
    [] op = "omitConditional" -> ConditionalNames
    [] OTHER -> {}

\* the function applied again to a header set
Again(headers) ==
  CASE op = "unset" -> H_unset(args[1], headers)
    [] op = "omitConfidential" -> omitConfidential(headers)
    [] op = "omitConditional" -> omitConditional(headers)
    [] OTHER -> headers

\* C22: Headers.unset(name), omitConfidential and omitConditional remove
\* exactly their names (name; authorization and cookie; the four conditional
\* names) and leave every other entry and the input header set unchanged;
\* each is a no-op when none of its names is present, and idempotent.
C22_RemovalsExact ==
  op \in {"unset", "omitConfidential", "omitConditional"} /\ ret # None
    => LET headers == args[Len(args)]
           out == ret.value.returned
       IN /\ DOMAIN out = (DOMAIN headers) \ Removed
          /\ \A k \in DOMAIN out : out[k] = headers[k]
          /\ ret.value.argument = headers
          /\ (DOMAIN headers) \cap Removed = {} => out = headers
          /\ Again(out) = out

\* omitConditional removed the four conditional headers and kept the others
C22_Witness ==
  /\ op = "omitConditional" /\ ret # None
  /\ args[1] = ConditionalHeaders
  /\ DOMAIN ret.value.returned = {"accept", "cookie"}
  /\ ret.value.argument = ConditionalHeaders


\* An invocation run alone, from what followUp returned on: the requests it
\* transfers and what it ends with.
RECURSIVE AloneFrom(_, _, _, _)
AloneFrom(s, server, f, sentSoFar) ==
  IF f.pc # "task"
  THEN [pc |-> f.pc, sent |-> sentSoFar, outcome |-> f.outcome]
  ELSE LET answer == serve(server, f.nextRequest)
           sentNow == Append(sentSoFar, f.nextRequest)
       IN IF answer.tag = "Left"
          THEN [pc |-> "failed", sent |-> sentNow,
                outcome |-> Left(wrapError(answer.left))]
          ELSE AloneFrom(s, server,
                         followUpWith(s, remaining(f.max),
                                      Result(answer.right, f.nextRequest),
                                      f.history),
                         sentNow)

Alone(call, server) ==
  AloneFrom(call.strategy, server,
            followUpWith(call.strategy, call.budget,
                         initialResult(call, server), <<>>),
            <<>>)

IsPrefix(short, long) ==
  /\ Len(short) <= Len(long)
  /\ SubSeq(long, 1, Len(short)) = short

RunTerminal(e) == runs[e].pc \in {"stopped", "failed", "threw"}

\* run e does what its invocation does alone: so far the same transfers, and
\* once it ended the same transfers and outcome
AsAlone(e) ==
  LET alone == Alone(cfg.call[e], cfg.server)
  IN /\ IsPrefix(runs[e].sent, alone.sent)
     /\ RunTerminal(e) => /\ runs[e].sent = alone.sent
                          /\ runs[e].outcome = alone.outcome
                          /\ runs[e].pc = alone.pc

\* C23: separate calls of followRedirectsWith(strategy)(max)(result) sharing
\* strategy and transport do not influence each other: under every
\* interleaving each invocation transfers the requests, and ends with the
\* outcome, that it produces alone.
C23_CallsIndependent ==
  \A e \in Runs : runs[e].pc # "idle" => AsAlone(e)

\* both calls were for the same request, both followed two redirects and one
\* ended while the other was still in flight
C23_Witness ==
  /\ cfg # None /\ cfg.mode = "calls"
  /\ cfg.call[1].request = cfg.call[2].request
  /\ RunTerminal(1) /\ Len(runs[1].sent) = 2
  /\ runs[2].pc = "inflight" /\ Len(runs[2].sent) = 2

\* C26: every execution of the task returned by one call
\* followRedirectsWith(strategy)(max)(result), against a deterministic
\* transport, transfers the same requests and ends with the same Result as
\* the first execution, which is what the invocation does alone; no state
\* kept from one execution changes another.
C26_ReexecutionSame ==
  /\ \A e \in Runs : runs[e].pc # "idle" => AsAlone(e)
  /\ RunTerminal(1) /\ RunTerminal(2)
       => runs[1].sent = runs[2].sent /\ runs[1].outcome = runs[2].outcome

\* C24: within one invocation at most one transfer is in flight: a transfer
\* is issued only when the one before it has completed and the strategy has
\* been evaluated on its Result.
C24_OneTransferAtATime ==
  [][sent' # sent =>
       /\ pc = "task" /\ pc' = "inflight"
       /\ sent' = Append(sent, nextRequest)
       /\ nextRequest = Strategy(strategy, latest)
       /\ latest.request = IF sent = <<>> THEN first ELSE sent[Len(sent)]]_vars

\* the third transfer is in flight, the second one answered
C24_Witness ==
  /\ pc = "inflight"
  /\ Len(sent) = 3
  /\ latest.request = sent[2]
  /\ sent[3] = Strategy(strategy, latest)

\* the requests of a sequence
Range(sequence) == { sequence[i] : i \in 1..Len(sequence) }

\* C25 (as amended): the history is append-only and is, in order, the
\* initial Result's request followed by the transferred requests whose
\* response arrived with budget left: all transferred requests but, at most,
\* the last (the request in flight, the request whose transfer failed, the
\* request answered when the budget was spent).  It stays empty when the
\* budget is below 1.
C25_HistoryAppendOnly ==
  /\ [](/\ budget < 1 => seen = <<>>
        /\ pc # "idle" /\ budget >= 1 =>
             /\ seen[1] = first
             /\ \A i \in 2..Len(seen) : seen[i] = sent[i - 1]
             /\ Len(sent) <= Len(seen) /\ Len(seen) <= Len(sent) + 1
        /\ pc \in {"inflight", "failed"} => Len(seen) = Len(sent)
        /\ BudgetExhausted => Len(seen) = Len(sent))
  /\ [][IsPrefix(seen, seen')]_vars

\* an invocation ended on its budget: the request transferred last is not in
\* the history
C25_Witness ==
  /\ BudgetExhausted
  /\ budget = 2
  /\ Len(sent) = 2
  /\ seen = <<first, sent[1]>>
  /\ sent[2] \notin Range(seen)

\* C25 as stated: in every state of an invocation, the terminal one included,
\* the history contains every request transferred and the initial Result's
\* request (here for the invocations with a budget of 1 or more; with a
\* budget below 1 the history does not even hold the initial request).
C25_HistoryHoldsAllTransferred ==
  pc # "idle" /\ budget >= 1
    => first \in Range(seen) /\ Range(sent) \subseteq Range(seen)

\* how often the prefix occurs in a message
PrefixCount(message) ==
  Cardinality({ i \in 1..Len(message) : message[i] = "After redirect: " })

\* C27: whatever the hop on which the transport fails, the error returned
\* carries the prefix "After redirect: " exactly once, followed by the
\* transport's message; the prefix is not stacked once per hop followed.
C27_PrefixOnce ==
  pc = "failed" =>
    /\ outcome.tag = "Left"
    /\ PrefixCount(outcome.left) = 1
    /\ outcome.left[1] = "After redirect: "
    /\ Tail(outcome.left) = transportError.value
    /\ Tail(outcome.left) \in TransportErrors

\* the transport failed on the last hop the budget allowed
C27_Witness ==
  /\ pc = "failed"
  /\ budget = MaxHops
  /\ Len(sent) = MaxHops
  /\ PrefixCount(outcome.left) = 1

\* the requests of an invocation in order: the request of the initial
\* Result, then the transferred ones
Requested == <<first>> \o sent

\* every header of the one set is in the other, with the same value
HeaderSubset(some, all) ==
  \A k \in DOMAIN some : k \in DOMAIN all /\ all[k] = some[k]

CrossOrigin(from, to) ==
  ~sameOrigin(parse(from.url).value, parse(to.url).value)

\* C28: under defaultRedirectionStrategy and aggressiveRedirectionStrategy
\* the headers of every transferred request are a subset of the headers of
\* the request of the Result before it; once a cross-origin hop has stripped
\* authorization and cookie no later request of the invocation carries them,
\* even back on the original origin.
C28_HeadersOnlyShrink ==
  strategy \in {"defaultRedirectionStrategy", "aggressiveRedirectionStrategy"}
    => \A i \in 1..Len(sent) :
         /\ HeaderSubset(sent[i].headers, Requested[i].headers)
         /\ CrossOrigin(Requested[i], sent[i])
              => \A j \in i..Len(sent) : ~HasConfidential(sent[j])

\* a request with credentials went to another origin and came back to the
\* first URL without them
C28_Witness ==
  /\ strategy = "defaultRedirectionStrategy"
  /\ Len(sent) >= 2
  /\ HasConfidential(first)
  /\ CrossOrigin(first, sent[1])
  /\ sent[2].url = first.url
  /\ ~HasConfidential(sent[2])

\* the positions in Requested of the requests with the method and URL of
\* the request at position i
SamePair(i) ==
  { j \in 1..Len(Requested) :
      /\ Requested[j].method = Requested[i].method
      /\ Requested[j].url = Requested[i].url }

AlwaysNotModified(e) ==
  /\ cfg.server = "unmodified"
  /\ cfg.call[e].strategy = "aggressiveRedirectionStrategy"
  /\ runs[e].pc # "idle"

\* a GET request with a conditional header
ConditionalGet(request) ==
  /\ request.method = "GET"
  /\ (DOMAIN request.headers) \cap ConditionalNames # {}

====
